---- MODULE Spec2Model ----
(***************************************************************************)
(* A model of the transaction server actions of the finance platform      *)
(* (src/actions/transaction.js): the ledger store reached through the     *)
(* ORM, createTransaction / updateTransaction and their balance           *)
(* bookkeeping, the two read actions, calculateNextRecurringDate and the  *)
(* receipt scanner's handling of the model's raw text.                    *)
(***************************************************************************)
EXTENDS Integers, Sequences, FiniteSets, TLC

VARIABLES
    accounts,      \* Account table: id -> [userId, balance]
    transactions,  \* Transaction table: id -> row (domain = the ids stored)
    call,          \* per request: the server action in flight and its locals
    outcome,       \* what the request that finished last returned or threw
    requests,      \* how many requests have been received
    returned,      \* the rows the read action that finished last returned
    dateIn,        \* calculateNextRecurringDate: the arguments ...
    dateOut,       \* ... and the Date it returned
    response,      \* scanReceipt: what generateContent answered
    scanOut        \* scanReceipt: what it returned or threw

vars == <<accounts, transactions, call, outcome, requests, returned,
          dateIn, dateOut, response, scanOut>>

ledgerVars == <<accounts, transactions, call, outcome, requests>>
otherVars  == <<returned, dateIn, dateOut, response, scanOut>>

(***************************************************************************)
(* Bounds of the model.                                                    *)
(***************************************************************************)
MaxRows        == 2      \* rows of the stores the read actions are tried on
MaxAmount      == 1      \* amounts submitted range over -1 .. MaxAmount
MaxRequests    == 3      \* requests the server receives in one behaviour
InitialBalance == 5      \* every account's balance when the model starts
FirstYear      == 2023   \* calendar years FirstYear .. FirstYear + NumYears - 1
NumYears       == 2

NULL == "NULL"

(***************************************************************************)
(* Calendar dates, as the local-time fields of a JS Date: month is 0..11.  *)
(***************************************************************************)
Years == FirstYear .. (FirstYear + NumYears - 1)

IsLeap(y) == (y % 4 = 0 /\ y % 100 # 0) \/ y % 400 = 0

DaysInMonth(y, m) ==
    IF m = 1 THEN (IF IsLeap(y) THEN 29 ELSE 28)
    ELSE IF m \in {3, 5, 8, 10} THEN 30 ELSE 31

MkDate(y, m, d) == [y |-> y, m |-> m, d |-> d]

\* The Date a JS Date holds after its fields are set to year y, month m
\* (possibly 12) and day d (possibly past the month's end): the month
\* carries into the year and the surplus days carry into the next month.
MakeDay(y, m, d) ==
    LET yy == y + (m \div 12)
        mm == m % 12
    IN  IF d <= DaysInMonth(yy, mm)
        THEN MkDate(yy, mm, d)
        ELSE MkDate(yy + ((mm + 1) \div 12), (mm + 1) % 12, d - DaysInMonth(yy, mm))

Intervals == {"DAILY", "WEEKLY", "MONTHLY", "YEARLY"}

calculateNextRecurringDate(date, interval) ==
    CASE interval = "MONTHLY" -> MakeDay(date.y, date.m + 1, date.d)
      [] interval = "YEARLY"  -> MakeDay(date.y + 1, date.m, date.d)
      [] OTHER                -> date

(***************************************************************************)
(* The ledger store.                                                       *)
(***************************************************************************)
Users      == {"u1", "u2"}                 \* rows of the User table
ClerkIds   == {"u1", "u2", "u9", NULL}     \* what auth() may answer
AccountIds == {"a1", "a2", "a3"}           \* rows of the Account table
AnyAccount == AccountIds \cup {"a0"}       \* "a0" names no account
TxIds      == 1 .. MaxRequests             \* ids the store may give out
Types      == {"INCOME", "EXPENSE"}
Amounts    == -1 .. MaxAmount
Procs      == {"r1", "r2"}                 \* requests served concurrently

OwnerOf(a) == IF a = "a3" THEN "u2" ELSE "u1"

\* db.user.findUnique({ where: { clerkUserId } })
FindUser(clerkId) == IF clerkId \in Users THEN clerkId ELSE NULL

DefaultDate == MkDate(FirstYear, 0, 15)

NoData == [accountId |-> "a0", type |-> "INCOME", amount |-> 0,
           date |-> DefaultDate, isRecurring |-> FALSE,
           recurringInterval |-> NULL]

Idle == [op |-> "idle", userId |-> NULL, id |-> 0, data |-> NoData, snap |-> 0]

\* Any data a caller may submit, when the claim at hand is about balances ...
LedgerData ==
    [accountId : AnyAccount, type : Types, amount : Amounts,
     date : {DefaultDate}, isRecurring : {FALSE}, recurringInterval : {NULL}]

\* ... and when it is about recurrence.
RecurDates ==
    {MkDate(FirstYear, 0, 31), MkDate(FirstYear, 11, 31),
     MkDate(FirstYear + 1, 1, 29), MkDate(FirstYear, 5, 10)}

RecurData ==
    [accountId : {"a1"}, type : {"EXPENSE"}, amount : {1},
     date : RecurDates, isRecurring : BOOLEAN,
     recurringInterval : Intervals \cup {NULL}]

\* balanceChange / oldChange / newChange: the signed amount
Signed(type, amount) == IF type = "EXPENSE" THEN -amount ELSE amount

\* nextRecurringDate of the row written: null is <<>>, a Date d is <<d>>
NextRecurringOf(data) ==
    IF data.isRecurring /\ data.recurringInterval # NULL
    THEN <<calculateNextRecurringDate(data.date, data.recurringInterval)>>
    ELSE <<>>

\* { ...data, userId, nextRecurringDate }
RowOf(data, userId) ==
    [userId |-> userId, accountId |-> data.accountId, type |-> data.type,
     amount |-> data.amount, date |-> data.date,
     isRecurring |-> data.isRecurring,
     recurringInterval |-> data.recurringInterval,
     nextRecurringDate |-> NextRecurringOf(data)]

\* db.account.findUnique({ where: { id, userId } })
FindAccount(id, userId) ==
    id \in DOMAIN accounts /\ accounts[id].userId = userId

\* db.transaction.findUnique({ where: { id, userId } })
FindTransaction(id, userId) ==
    id \in DOMAIN transactions /\ transactions[id].userId = userId

\* db.$transaction(async (tx) => { row write; account write }): what of the
\* two writes is persisted, given which of them succeeded.  The account write
\* is attempted only after the row write has succeeded.  The transaction is
\* one step of the model: the account write locks the account row until the
\* commit, so no other request's write to that balance falls between the two
\* writes and the commit, and nothing uncommitted is visible to a reader.
PersistedNoRollback(rowOk, acctOk) ==
    [row |-> rowOk, acct |-> rowOk /\ acctOk]

Persisted(rowOk, acctOk) ==
    [row |-> rowOk /\ acctOk, acct |-> rowOk /\ acctOk]

FreeId == CHOOSE i \in TxIds : i \notin DOMAIN transactions

Receive ==
    /\ requests < MaxRequests
    /\ requests' = requests + 1

Finish(p, msg) ==
    /\ call' = [call EXCEPT ![p] = Idle]
    /\ outcome' = msg

(***************************************************************************)
(* createTransaction(data)                                                 *)
(***************************************************************************)
\* Lines 44-74: auth, the rate limiter, the user row, the account row and
\* the balance read from it.  Nothing is written.
CreateRead(p, clerkId, denied, data) ==
    /\ call[p].op = "idle"
    /\ Receive
    /\ UNCHANGED <<accounts, transactions, otherVars>>
    /\ LET userId == FindUser(clerkId)
       IN  CASE clerkId = NULL -> Finish(p, "Unauthorized")
             [] clerkId # NULL /\ denied = "rate" ->
                    Finish(p, "Too many requests. Please try again later.")
             [] clerkId # NULL /\ denied = "block" -> Finish(p, "Request blocked")
             [] clerkId # NULL /\ denied = "no" /\ userId = NULL ->
                    Finish(p, "User not found")
             [] clerkId # NULL /\ denied = "no" /\ userId # NULL
                  /\ ~FindAccount(data.accountId, userId) ->
                    Finish(p, "Account not found")
             [] OTHER ->
                    /\ call' = [call EXCEPT ![p] =
                          [op |-> "create", userId |-> userId, id |-> 0,
                           data |-> data,
                           snap |-> accounts[data.accountId].balance]]
                    /\ UNCHANGED outcome

\* Lines 76-94: the interactive transaction.  newBalance was computed from
\* the balance read before it began.
CreateCommit(p, rowOk, acctOk) ==
    /\ call[p].op = "create"
    /\ UNCHANGED <<requests, otherVars>>
    /\ LET c          == call[p]
           newBalance == c.snap + Signed(c.data.type, c.data.amount)
           rowDone    == rowOk /\ c.data.accountId \in DOMAIN accounts
           done       == Persisted(rowDone, acctOk)
       IN  /\ transactions' =
                IF done.row
                THEN [i \in DOMAIN transactions \cup {FreeId} |->
                        IF i = FreeId THEN RowOf(c.data, c.userId)
                        ELSE transactions[i]]
                ELSE transactions
           /\ accounts' =
                IF done.acct
                THEN [accounts EXCEPT ![c.data.accountId].balance = newBalance]
                ELSE accounts
           /\ Finish(p, IF ~rowDone THEN "transaction write failed"
                        ELSE IF ~acctOk THEN "account write failed"
                        ELSE "ok")

(***************************************************************************)
(* updateTransaction(id, data)                                             *)
(***************************************************************************)
\* Lines 128-150: auth, the user row, the original row and oldChange.
UpdateRead(p, clerkId, id, data) ==
    /\ call[p].op = "idle"
    /\ Receive
    /\ UNCHANGED <<accounts, transactions, otherVars>>
    /\ LET userId == FindUser(clerkId)
       IN  CASE clerkId = NULL -> Finish(p, "Unauthorized")
             [] clerkId # NULL /\ userId = NULL -> Finish(p, "User not found")
             [] clerkId # NULL /\ userId # NULL /\ ~FindTransaction(id, userId) ->
                    Finish(p, "Transaction not found")
             [] OTHER ->
                    /\ call' = [call EXCEPT ![p] =
                          [op |-> "update", userId |-> userId, id |-> id,
                           data |-> data,
                           snap |-> Signed(transactions[id].type,
                                           transactions[id].amount)]]
                    /\ UNCHANGED outcome

\* Lines 152-170: the interactive transaction.  The row is rewritten with
\* data, and the balance of data.accountId is incremented by netChange.
UpdateCommit(p, rowOk, acctOk) ==
    /\ call[p].op = "update"
    /\ UNCHANGED <<requests, otherVars>>
    /\ LET c         == call[p]
           netChange == Signed(c.data.type, c.data.amount) - c.snap
           rowDone   == /\ rowOk
                        /\ FindTransaction(c.id, c.userId)
                        /\ c.data.accountId \in DOMAIN accounts
           done      == Persisted(rowDone, acctOk)
       IN  /\ transactions' =
                IF done.row
                THEN [transactions EXCEPT ![c.id] = RowOf(c.data, c.userId)]
                ELSE transactions
           /\ accounts' =
                IF done.acct
                THEN [accounts EXCEPT ![c.data.accountId].balance = @ + netChange]
                ELSE accounts
           /\ Finish(p, IF ~rowDone THEN "transaction write failed"
                        ELSE IF ~acctOk THEN "account write failed"
                        ELSE "ok")

(***************************************************************************)
(* getTransaction(id) and getUserTransactions(query)                       *)
(***************************************************************************)
\* A Prisma where-clause is a function from field names to the values asked
\* for; a row matches when it agrees on every field named.
Matches(row, where) == \A k \in DOMAIN where : row[k] = where[k]

\* { userId: user.id, ...query }: the fields spread last win
SpreadWhere(userId, query) == query @@ ("userId" :> userId)

Answer(userId, ids) == [caller |-> userId, ids |-> ids]

NoAnswer == Answer(NULL, {})

getTransaction(clerkId, id) ==
    /\ Receive
    /\ LET userId == FindUser(clerkId)
       IN  CASE clerkId = NULL ->
                    /\ outcome' = "Unauthorized"
                    /\ returned' = NoAnswer
             [] clerkId # NULL /\ userId = NULL ->
                    /\ outcome' = "User not found"
                    /\ returned' = NoAnswer
             [] clerkId # NULL /\ userId # NULL /\ ~FindTransaction(id, userId) ->
                    /\ outcome' = "Transaction not found"
                    /\ returned' = NoAnswer
             [] OTHER ->
                    /\ outcome' = "ok"
                    /\ returned' = Answer(userId, {id})
    /\ UNCHANGED <<accounts, transactions, call, dateIn, dateOut, response, scanOut>>

\* The rows found, in any order: orderBy and include do not change which
\* rows are answered.
getUserTransactions(clerkId, query) ==
    /\ Receive
    /\ LET userId == FindUser(clerkId)
       IN  CASE clerkId = NULL ->
                    /\ outcome' = "Unauthorized"
                    /\ returned' = NoAnswer
             [] clerkId # NULL /\ userId = NULL ->
                    /\ outcome' = "User not found"
                    /\ returned' = NoAnswer
             [] OTHER ->
                    /\ outcome' = "ok"
                    /\ returned' = Answer(userId,
                          {i \in DOMAIN transactions :
                              Matches(transactions[i], SpreadWhere(userId, query))})
    /\ UNCHANGED <<accounts, transactions, call, dateIn, dateOut, response, scanOut>>

\* The query objects a caller may pass.
Queries ==
    {<<>>} \cup {("type" :> t) : t \in Types}
           \cup {("accountId" :> a) : a \in AccountIds}
           \cup {("userId" :> u) : u \in Users}
           \cup {("userId" :> u) @@ ("type" :> t) : u \in Users, t \in Types}

(***************************************************************************)
(* scanReceipt(file): the handling of the model's raw text.  The text is   *)
(* a sequence of lexical tokens: the code fence (three backticks, written  *)
(* "fence"), the word json, a newline,                                     *)
(* a blank, the JSON punctuation, whole "key":value members, and x for     *)
(* anything else.                                                          *)
(***************************************************************************)
Fence      == "fence"
Whitespace == {"\n", " "}
Members    == {"amount:12.50", "date:2024-01-15", "category:food", "category:zzz"}
\* The categories the prompt tells the model to choose from.
Categories ==
    {"housing", "transportation", "groceries", "utilities", "entertainment",
     "food", "shopping", "healthcare", "education", "personal", "travel",
     "insurance", "gifts", "bills", "other-expense"}

Tokens     == {Fence, "json", "{", "}", ",", "x"} \cup Whitespace \cup Members

\* .replace(/fence(?:json)?/g, ""): every fence goes, with a json that
\* follows it directly; the g flag scans left to right
RECURSIVE StripFencesPlain(_)
StripFencesPlain(t) ==
    IF t = <<>> THEN <<>>
    ELSE IF Head(t) = Fence THEN StripFencesPlain(Tail(t))
    ELSE <<Head(t)>> \o StripFencesPlain(Tail(t))

RECURSIVE StripFences(_)
StripFences(t) ==
    IF t = <<>> THEN <<>>
    ELSE IF Head(t) = Fence
         THEN IF Len(t) >= 2 /\ t[2] = "json"
              THEN StripFences(Tail(Tail(t)))
              ELSE StripFences(Tail(t))
    ELSE <<Head(t)>> \o StripFences(Tail(t))

\* .trim()
RECURSIVE TrimStart(_)
TrimStart(t) ==
    IF t # <<>> /\ Head(t) \in Whitespace THEN TrimStart(Tail(t)) ELSE t

RECURSIVE TrimEnd(_)
TrimEnd(t) ==
    IF t # <<>> /\ t[Len(t)] \in Whitespace
    THEN TrimEnd(SubSeq(t, 1, Len(t) - 1)) ELSE t

Trim(t) == TrimEnd(TrimStart(t))

\* JSON.parse(raw): whitespace between tokens is insignificant; the text
\* parses when it is an object of comma-separated members.  The value is the
\* sequence of the members, in order.
IsWs(tok) == tok \in Whitespace
IsMember(tok) == tok \in Members

JsonTokens(t) == SelectSeq(t, LAMBDA tok : ~IsWs(tok))

JsonParses(t) ==
    LET j == JsonTokens(t)
        n == Len(j)
    IN  /\ n >= 2
        /\ j[1] = "{"
        /\ j[n] = "}"
        /\ \/ n = 2
           \/ /\ n % 2 = 1
              /\ \A i \in 2 .. (n - 1) :
                    IF i % 2 = 0 THEN IsMember(j[i]) ELSE j[i] = ","

JsonParse(t) == SelectSeq(JsonTokens(t), IsMember)

\* parsed[key]: the value of the last member with that key, "undefined" if
\* there is none
KeyOf(member) ==
    CASE member = "amount:12.50"    -> "amount"
      [] member = "date:2024-01-15" -> "date"
      [] OTHER                      -> "category"

ValueOf(member) ==
    CASE member = "amount:12.50"    -> "12.50"
      [] member = "date:2024-01-15" -> "2024-01-15"
      [] member = "category:food"   -> "food"
      [] OTHER                      -> "zzz"

Property(parsed, key) ==
    LET at == {i \in 1 .. Len(parsed) : KeyOf(parsed[i]) = key}
    IN  IF at = {} THEN "undefined"
        ELSE ValueOf(parsed[CHOOSE i \in at : \A k \in at : k <= i])

\* Number(v)
NumberOf(v) == IF v = "12.50" THEN "12.5" ELSE "NaN"

ScanResult(kind, amount, date, category) ==
    [kind |-> kind, amount |-> amount, date |-> date, category |-> category]

EmptyResult == ScanResult("empty", "", "", "")
ScanFailed  == ScanResult("Failed to scan receipt", "", "", "")
ScanPending == ScanResult("pending", "", "", "")

\* Lines 245-260.  generated is FALSE when arrayBuffer or generateContent
\* throws.
ScanOutcome(generated, text) ==
    LET raw == Trim(StripFences(text))
    IN  IF ~generated THEN ScanFailed
        ELSE IF raw = <<>> \/ raw = <<"{", "}">> THEN EmptyResult
        ELSE IF ~JsonParses(raw) THEN ScanFailed
        ELSE LET parsed == JsonParse(raw)
                 date == Property(parsed, "date")
                 category == Property(parsed, "category")
             IN  ScanResult("record",
                     NumberOf(Property(parsed, "amount")),
                     IF date # "undefined" THEN date ELSE "null",
                     IF category # "undefined" THEN category ELSE "other-expense")

(***************************************************************************)
(* Specifications of the ledger.                                           *)
(***************************************************************************)
InitOther ==
    /\ returned = NoAnswer
    /\ dateIn = [date |-> DefaultDate, interval |-> NULL]
    /\ dateOut = <<>>
    /\ response = [generated |-> FALSE, text |-> <<>>]
    /\ scanOut = ScanPending

Init ==
    /\ accounts = [a \in AccountIds |->
                      [userId |-> OwnerOf(a), balance |-> InitialBalance]]
    /\ transactions = <<>>
    /\ call = [p \in Procs |-> Idle]
    /\ outcome = "none"
    /\ requests = 0
    /\ InitOther

Denials == {"no", "rate", "block"}

Step(p, D) ==
    \/ \E clerkId \in ClerkIds, denied \in Denials, data \in D :
          CreateRead(p, clerkId, denied, data)
    \/ \E rowOk \in BOOLEAN, acctOk \in BOOLEAN : CreateCommit(p, rowOk, acctOk)
    \/ \E clerkId \in ClerkIds, id \in TxIds, data \in D :
          UpdateRead(p, clerkId, id, data)
    \/ \E rowOk \in BOOLEAN, acctOk \in BOOLEAN : UpdateCommit(p, rowOk, acctOk)

\* Requests interleave at their awaits on the store.
\* Valid data on the accounts of user u1.
OwnData ==
    [accountId : {"a1", "a2"}, type : Types, amount : 1 .. MaxAmount,
     date : {DefaultDate}, isRecurring : {FALSE}, recurringInterval : {NULL}]

\* Requests with valid data, interleaved at their awaits on the store.
Next == \E p \in Procs : Step(p, OwnData)

Spec == Init /\ [][Next]_vars

\* Requests with valid data, served one at a time: each finishes before the
\* next starts.
NextSeq == Step("r1", OwnData)

SpecSeq == Init /\ [][NextSeq]_vars

\* Requests with any data, served one at a time.
NextOpen == Step("r1", LedgerData)

SpecOpen == Init /\ [][NextOpen]_vars

NextRecur == Step("r1", RecurData)

SpecRecur == Init /\ [][NextRecur]_vars

(***************************************************************************)
(* The read actions, over every store of at most MaxRows rows in which each  *)
(* row lies on an account of its owner.                                    *)
(***************************************************************************)
StoredRows ==
    {RowOf(d, u) : d \in {x \in LedgerData : x.amount = 1}, u \in Users}

OwnRows == {r \in StoredRows : r.accountId \in AccountIds
                                 /\ OwnerOf(r.accountId) = r.userId}

InitReads ==
    /\ accounts = [a \in AccountIds |->
                      [userId |-> OwnerOf(a), balance |-> InitialBalance]]
    /\ \E n \in 0 .. MaxRows : transactions \in [1 .. n -> OwnRows]
    /\ call = [p \in Procs |-> Idle]
    /\ outcome = "none"
    /\ requests = 0
    /\ InitOther

NextReads ==
    \/ \E clerkId \in ClerkIds, id \in TxIds : getTransaction(clerkId, id)
    \/ \E clerkId \in ClerkIds, query \in Queries :
          getUserTransactions(clerkId, query)

SpecReads == InitReads /\ [][NextReads]_vars

(***************************************************************************)
(* calculateNextRecurringDate on every date of the years modelled.         *)
(***************************************************************************)
Calendar ==
    {MkDate(y, m, d) : y \in Years, m \in 0 .. 11, d \in 1 .. 31}

Dates == {x \in Calendar : x.d <= DaysInMonth(x.y, x.m)}

\* The call: dateOut holds the Date returned once it has been made.
Calculate ==
    /\ dateOut = <<>>
    /\ dateOut' = <<calculateNextRecurringDate(dateIn.date, dateIn.interval)>>
    /\ UNCHANGED <<ledgerVars, returned, dateIn, response, scanOut>>

InitDate ==
    /\ accounts = [a \in AccountIds |->
                      [userId |-> OwnerOf(a), balance |-> InitialBalance]]
    /\ transactions = <<>>
    /\ call = [p \in Procs |-> Idle]
    /\ outcome = "none"
    /\ requests = 0
    /\ returned = NoAnswer
    /\ dateIn \in [date : Dates, interval : Intervals]
    /\ dateOut = <<>>
    /\ response = [generated |-> FALSE, text |-> <<>>]
    /\ scanOut = ScanPending

NextDate == Calculate

SpecDate == InitDate /\ [][NextDate]_vars

(***************************************************************************)
(* scanReceipt on every raw text of at most MaxRawLen tokens, and on the   *)
(* longer texts a model typically answers.                                 *)
(***************************************************************************)
MaxRawLen == 3

FencedEmpty  == <<Fence, "json", "\n", "{", "}", "\n", Fence>>
FencedSpread == <<Fence, "json", "\n", "{", "\n", "}", "\n", Fence>>
FencedRecord ==
    <<Fence, "json", "\n", "{", "amount:12.50", ",", "date:2024-01-15", ",",
      "category:zzz", "}", "\n", Fence>>

RawTexts ==
    UNION {[1 .. n -> Tokens] : n \in 0 .. MaxRawLen}
        \cup {FencedEmpty, FencedSpread, FencedRecord}

Responses ==
    [generated : {TRUE}, text : RawTexts]
        \cup {[generated |-> FALSE, text |-> <<>>]}

\* The call: scanOut holds what it returned or threw once it has been made.
scanReceipt ==
    /\ scanOut = ScanPending
    /\ scanOut' = ScanOutcome(response.generated, response.text)
    /\ UNCHANGED <<ledgerVars, returned, dateIn, dateOut, response>>

InitScan ==
    /\ accounts = [a \in AccountIds |->
                      [userId |-> OwnerOf(a), balance |-> InitialBalance]]
    /\ transactions = <<>>
    /\ call = [p \in Procs |-> Idle]
    /\ outcome = "none"
    /\ requests = 0
    /\ returned = NoAnswer
    /\ dateIn = [date |-> DefaultDate, interval |-> NULL]
    /\ dateOut = <<>>
    /\ response \in Responses
    /\ scanOut = ScanPending

NextScan == scanReceipt

SpecScan == InitScan /\ [][NextScan]_vars

(***************************************************************************)
(* The properties.                                                         *)
(***************************************************************************)
Quiescent == \A p \in Procs : call[p].op = "idle"

RECURSIVE SumSigned(_, _)
SumSigned(ids, a) ==
    IF ids = {} THEN 0
    ELSE LET i == CHOOSE x \in ids : TRUE
             r == transactions[i]
         IN  (IF r.accountId = a THEN Signed(r.type, r.amount) ELSE 0)
                + SumSigned(ids \ {i}, a)

LedgerSum(a) == SumSigned(DOMAIN transactions, a)

\* Request p leaves its interactive transaction in this step.
Commits(p) == call[p].op \in {"create", "update"} /\ call'[p].op = "idle"

StoreUnchanged == accounts' = accounts /\ transactions' = transactions

\* C1: with requests served one at a time, whenever no request is in flight
\* every account's balance is its initial balance plus the signed amounts of
\* the transactions now stored on it.
BalanceMatchesLedger ==
    Quiescent =>
        \A a \in AccountIds :
            accounts[a].balance = InitialBalance + LedgerSum(a)

\* C2: with requests interleaved at their awaits, a request that commits
\* moves the balance of its account by exactly its own signed contribution,
\* from whatever the balance is when it commits: no other request's change
\* is overwritten.
NoLostUpdate ==
    [][\A p \in Procs :
          (Commits(p) /\ outcome' = "ok") =>
              LET c == call[p]
                  a == c.data.accountId
                  own == IF c.op = "create"
                         THEN Signed(c.data.type, c.data.amount)
                         ELSE Signed(c.data.type, c.data.amount)
                                - Signed(transactions[c.id].type,
                                         transactions[c.id].amount)
              IN  accounts'[a].balance = accounts[a].balance + own]_vars

RowWritten(p) ==
    LET c == call[p]
    IN  IF c.op = "create"
        THEN \E i \in DOMAIN transactions' \ DOMAIN transactions :
                transactions'[i] = RowOf(c.data, c.userId)
        ELSE transactions'[c.id] = RowOf(c.data, c.userId)

BalanceWritten(p) ==
    LET c == call[p]
        a == c.data.accountId
        change == Signed(c.data.type, c.data.amount)
    IN  IF c.op = "create"
        THEN accounts'[a].balance = c.snap + change
        ELSE accounts'[a].balance = accounts[a].balance + (change - c.snap)

\* C3: the row write and the balance write of a request are persisted
\* together or not at all: a request that leaves its interactive transaction
\* either fails and leaves both tables as they were, or succeeds with the
\* row written and the balance written.
AllOrNothing ==
    [][\A p \in Procs :
          Commits(p) =>
              \/ outcome' # "ok" /\ StoreUnchanged
              \/ outcome' = "ok" /\ RowWritten(p) /\ BalanceWritten(p)]_vars

\* C3 witness: the account write failed after the row write had succeeded,
\* and no row is stored.
RolledBack == outcome = "account write failed" /\ transactions = <<>>

\* C4: a request whose data.accountId names no account of the acting user
\* fails and changes neither table, and a balance is changed only by a
\* request of the account's owner.
ForeignAccountRejected ==
    [][/\ \A p \in Procs :
             (Commits(p) /\ ~FindAccount(call[p].data.accountId, call[p].userId))
                 => (outcome' # "ok" /\ StoreUnchanged)
       /\ \A a \in AccountIds :
             accounts'[a] # accounts[a] =>
                 \E p \in Procs : Commits(p) /\ call[p].userId = accounts[a].userId]_vars

\* C5: a request with a negative amount fails and changes neither table, so
\* every stored amount is a non-negative magnitude.
NegativeAmountRejected ==
    [][/\ \A p \in Procs :
             (Commits(p) /\ call[p].data.amount < 0)
                 => (outcome' # "ok" /\ StoreUnchanged)
       /\ \A i \in DOMAIN transactions' : transactions'[i].amount >= 0]_vars

Before(x, y) ==
    \/ x.y < y.y
    \/ x.y = y.y /\ x.m < y.m
    \/ x.y = y.y /\ x.m = y.m /\ x.d < y.d

\* C6: every stored row has a nextRecurringDate exactly when it is recurring
\* with an interval set, and that date is strictly after the row's date.
RecurringDateInvariant ==
    \A i \in DOMAIN transactions :
        LET r == transactions[i]
        IN  /\ (r.nextRecurringDate # <<>>)
                  <=> (r.isRecurring /\ r.recurringInterval # NULL)
            /\ r.nextRecurringDate # <<>> => Before(r.date, r.nextRecurringDate[1])

\* date + n days, for n up to four weeks
AddDays(date, n) == MakeDay(date.y, date.m, date.d + n)

\* C7: calculateNextRecurringDate returns date + 1 day for DAILY and
\* date + 7 days for WEEKLY.
DailyWeeklyAdvance ==
    dateOut # <<>> =>
        /\ dateIn.interval = "DAILY" => dateOut[1] = AddDays(dateIn.date, 1)
        /\ dateIn.interval = "WEEKLY" => dateOut[1] = AddDays(dateIn.date, 7)

Min(a, b) == IF a <= b THEN a ELSE b

\* The same day of the month (y, m), or its last day when it has no such day.
Clamped(y, m, d) == MkDate(y, m, Min(d, DaysInMonth(y, m)))

\* C8: for MONTHLY the result lies in the month after the input's, on the
\* same day or on that month's last day; for YEARLY Feb 29 gives Feb 28 of
\* the next year.
MonthlyYearlyClamp ==
    dateOut # <<>> =>
        LET date == dateIn.date
        IN  /\ dateIn.interval = "MONTHLY" =>
                  dateOut[1] = Clamped(date.y + ((date.m + 1) \div 12),
                                       (date.m + 1) % 12, date.d)
            /\ (dateIn.interval = "YEARLY" /\ date.m = 1 /\ date.d = 29) =>
                  dateOut[1] = MkDate(date.y + 1, 1, 28)

\* C9: the read actions answer only rows owned by the authenticated caller.
ReadsIsolated ==
    \A i \in returned.ids : transactions[i].userId = returned.caller

\* The raw text with its fences gone (and a json right after a fence), then
\* trimmed, told by position.
Unfenced(text) ==
    LET keep == {i \in 1 .. Len(text) :
                    /\ text[i] # Fence
                    /\ ~(text[i] = "json" /\ i > 1 /\ text[i - 1] = Fence)}
        solid == {i \in keep : text[i] \notin Whitespace}
        inner == {i \in keep : \E j \in solid, k \in solid : j <= i /\ i <= k}
        nth(n) == CHOOSE i \in inner : Cardinality({j \in inner : j < i}) = n - 1
    IN  [n \in 1 .. Cardinality(inner) |-> text[nth(n)]]

\* C10, as claimed: scanReceipt returns the empty result whenever the
\* unfenced text is an empty object or does not parse as JSON.
ScanDegradesToEmpty ==
    (scanOut # ScanPending /\ response.generated) =>
        LET raw == Unfenced(response.text)
        IN  (JsonTokens(raw) = <<"{", "}">> \/ ~JsonParses(raw))
                => scanOut = EmptyResult

\* C10, amended: scanReceipt returns the empty result exactly when the text,
\* unfenced and trimmed, is empty or is the two characters of the empty
\* object, as for the fenced empty object; any other text that does not
\* parse as JSON makes it fail with "Failed to scan receipt", and an empty
\* object with whitespace inside its braces gives a record without an amount.
ScanEmptyOnBlankOrBraces ==
    scanOut # ScanPending =>
        LET raw == Unfenced(response.text)
            blank == response.generated /\ raw \in {<<>>, <<"{", "}">>}
        IN  /\ scanOut = EmptyResult <=> blank
            /\ (response.generated /\ response.text = FencedEmpty)
                  => scanOut = EmptyResult
            /\ (response.generated /\ ~blank /\ ~JsonParses(raw))
                  => scanOut = ScanFailed
            /\ (response.generated /\ ~blank /\ JsonTokens(raw) = <<"{", "}">>)
                  => scanOut = ScanResult("record", "NaN", "null", "other-expense")

\* C10 witness: the fenced empty object was scanned and gave the empty result.
FencedEmptyScanned ==
    /\ response.generated
    /\ response.text = FencedEmpty
    /\ scanOut = EmptyResult

\* C11: every record scanReceipt returns has a category of the fixed
\* vocabulary: a category that is absent or not in the vocabulary is replaced
\* by "other-expense".
ScanCategoryInVocabulary ==
    scanOut.kind = "record" =>
        LET given == Property(JsonParse(Unfenced(response.text)), "category")
        IN  /\ scanOut.category \in Categories
            /\ given \notin Categories => scanOut.category = "other-expense"

====
